---- MODULE Spec2Model ----
(***************************************************************************)
(* Character Crafter: the App view/state machine (App.tsx), the            *)
(* generateCharacterImage / generateSceneImage retry wrappers              *)
(* (services/geminiService.ts) and the sheet compositor                    *)
(* (lib/albumUtils.ts, createCharacterSheet).                              *)
(*                                                                         *)
(* Strings are sequences of tokens: String.prototype.includes is token     *)
(* membership, template literals are concatenation.  Lengths on the sheet  *)
(* are kept in hundredths of a pixel so that every quotient of the layout  *)
(* arithmetic is an integer.                                               *)
(***************************************************************************)
EXTENDS Integers, Sequences, FiniteSets, TLC

(***************************************************************************)
(* Bounds of the model                                                     *)
(***************************************************************************)
\* number of editor generations that may be in flight at once (an editor
\* that was closed while generating keeps its request running)
MaxInFlightEdits == 1
MaxAnnotations == 1

(***************************************************************************)
(* Program constants                                                       *)
(***************************************************************************)
POSES == <<"Front View", "Side View", "Back View", "Action Pose",
           "Happy Expression", "Angry Expression">>

MAX_FILE_SIZE_MB == 4
MAX_FILE_SIZE_BYTES == MAX_FILE_SIZE_MB * 1024 * 1024

\* two representatives of each type of the style catalogue
CARTOON_STYLES ==
    { [id |-> "clay-render", type |-> "3D"],
      [id |-> "manga-style", type |-> "2D"] }

\* a variant with one more attempt
maxRetries_OneMore == 3 + 1

maxRetries == 3
initialDelay == 2000
poseDelay == 1000

AppStates == {"idle", "image-uploaded", "style-selection", "generating-base",
              "approval", "generating-sheet", "results-shown",
              "scene-generator", "generating-scene", "scene-results",
              "character-editor"}

Null == "null"

(***************************************************************************)
(* Strings as token sequences                                              *)
(***************************************************************************)
Includes(msg, token) == \E i \in 1..Len(msg) : msg[i] = token

RECURSIVE Pow2(_)
Pow2(n) == IF n <= 0 THEN 1 ELSE 2 * Pow2(n - 1)

\* JSON.stringify of a thrown value that is not an Error
JSONstringify(value) == <<"{">> \o value \o <<"}">>

RetryableSignatures ==
    {"\"code\":500", "INTERNAL", "\"code\":429", "RESOURCE_EXHAUSTED", "xhr error"}

\* a variant that takes every HTTP-style code for retryable
isRetryableError_AnyCode(errorMessage) ==
    \/ Includes(errorMessage, "\"code\":500")
    \/ Includes(errorMessage, "\"code\":400")
    \/ Includes(errorMessage, "INTERNAL")
    \/ Includes(errorMessage, "\"code\":429")
    \/ Includes(errorMessage, "RESOURCE_EXHAUSTED")
    \/ Includes(errorMessage, "xhr error")

isRetryableError(errorMessage) ==
    \/ Includes(errorMessage, "\"code\":500")
    \/ Includes(errorMessage, "INTERNAL")
    \/ Includes(errorMessage, "\"code\":429")
    \/ Includes(errorMessage, "RESOURCE_EXHAUSTED")
    \/ Includes(errorMessage, "xhr error")

\* the data URLs of the model: an uploaded photo, an uploaded file whose data
\* URL does not match /^data:(image\/\w+);base64,(.*)$/, generated images
GenUrls == {"g1", "g2"}
UploadUrls == {"photo", "svg"}
ValidDataUrl(u) == u \in GenUrls \cup {"photo", "canvas"}

(***************************************************************************)
(* What one call of ai.models.generateContent can come back with           *)
(***************************************************************************)
\* response.text of a response without an inline image part
ResponseTexts == { <<>>, <<"Sorry, I cannot">>, <<"INTERNAL">> }

\* messages of the values the call can reject with
RejectMessages ==
    { <<"\"code\":500">>, <<"INTERNAL">>, <<"\"code\":429">>,
      <<"RESOURCE_EXHAUSTED">>, <<"xhr error">>, <<"\"code\":400">> }

ApiOutcomes ==
    [kind : {"image"}, url : GenUrls, text : {<<>>}, isError : {TRUE}]
    \cup [kind : {"noimage"}, url : {Null}, text : ResponseTexts, isError : {TRUE}]
    \cup [kind : {"reject"}, url : {Null}, text : RejectMessages, isError : BOOLEAN]

(***************************************************************************)
(* generateCharacterImage / generateSceneImage: one invocation             *)
(*   pc: "none" | "calling" | "waiting" | "returned" | "thrown"            *)
(*   calls counts the calls of ai.models.generateContent, waited the       *)
(*   milliseconds of backoff, delay the last backoff, last the kind of the *)
(*   last outcome, errorMessage the errorMessage of the last catch and     *)
(*   isError its `error instanceof Error`                                  *)
(***************************************************************************)
NoInvocation ==
    [pc |-> "none", fn |-> "character", attempt |-> 0, calls |-> 0, waited |-> 0,
     delay |-> 0, last |-> "none", errorMessage |-> <<>>, isError |-> FALSE,
     result |-> Null, error |-> <<>>]

FailedPrefix(fn) ==
    IF fn = "scene" THEN "The AI model failed to generate a scene image. Details:"
                    ELSE "The AI model failed to generate an image. Details:"

UnknownMessage(fn) ==
    IF fn = "scene" THEN "An unknown error occurred while generating the scene image."
                    ELSE "An unknown error occurred while generating the image."

AfterRetriesMessage(fn) ==
    IF fn = "scene" THEN "The AI model failed to generate a scene image after all retries."
                    ELSE "The AI model failed to generate an image after all retries."

UnavailableMessage ==
    "The AI service is temporarily unavailable. Please try again in a few moments."

TextInsteadOfImage(textResponse) ==
    <<"The AI model responded with text instead of an image:">>
        \o (IF textResponse = <<>> THEN <<"No text response received.">> ELSE textResponse)

\* the loop condition `attempt <= maxRetries`
LoopContinues(attempt) == attempt <= maxRetries

\* a variant that compares with <=
ShouldRetry_Inclusive(errorMessage, attempt) ==
    isRetryableError(errorMessage) /\ attempt <= maxRetries

\* `isRetryableError && attempt < maxRetries`
ShouldRetry(errorMessage, attempt) ==
    isRetryableError(errorMessage) /\ attempt < maxRetries

\* a variant with the exponent off by one
BackoffDelay_FromAttempt(attempt) == initialDelay * Pow2(attempt)

\* `initialDelay * Math.pow(2, attempt - 1)`
BackoffDelay(attempt) == initialDelay * Pow2(attempt - 1)

\* the body of the loop from `for` to the await of generateContent
EnterAttempt(v, attempt) ==
    IF LoopContinues(attempt)
    THEN [v EXCEPT !.pc = "calling", !.attempt = attempt, !.calls = @ + 1]
    ELSE [v EXCEPT !.pc = "thrown", !.attempt = attempt,
                   !.error = <<AfterRetriesMessage(v.fn)>>]

\* the call: the mapping of the data URLs, then the first attempt
StartInvocation(fn, urls, ctxOk) ==
    LET fresh == [NoInvocation EXCEPT !.fn = fn] IN
    IF ~ctxOk
    THEN [fresh EXCEPT !.pc = "thrown",
                       !.error = <<"Cannot set properties of null">>]
    ELSE IF \E i \in 1..Len(urls) : ~ValidDataUrl(urls[i])
    THEN [fresh EXCEPT !.pc = "thrown",
                       !.error = <<"Invalid image data URL format.">>]
    ELSE EnterAttempt(fresh, 1)

\* a variant whose else branch tests `error instanceof Error` first
Catch_DetailsFirst(v, isError, message) ==
    LET errorMessage == IF isError THEN message ELSE JSONstringify(message)
        retryable == isRetryableError(errorMessage)
    IN  IF ShouldRetry(errorMessage, v.attempt)
        THEN [v EXCEPT !.pc = "waiting", !.errorMessage = errorMessage,
                       !.isError = isError,
                       !.delay = BackoffDelay(v.attempt),
                       !.waited = @ + BackoffDelay(v.attempt)]
        ELSE [v EXCEPT !.pc = "thrown", !.errorMessage = errorMessage,
                       !.isError = isError,
                       !.error = IF isError THEN <<FailedPrefix(v.fn)>> \o message
                                 ELSE IF retryable THEN <<UnavailableMessage>>
                                 ELSE <<UnknownMessage(v.fn)>>]

\* the catch block
Catch(v, isError, message) ==
    LET errorMessage == IF isError THEN message ELSE JSONstringify(message)
        retryable == isRetryableError(errorMessage)
    IN  IF ShouldRetry(errorMessage, v.attempt)
        THEN [v EXCEPT !.pc = "waiting", !.errorMessage = errorMessage,
                       !.isError = isError,
                       !.delay = BackoffDelay(v.attempt),
                       !.waited = @ + BackoffDelay(v.attempt)]
        ELSE [v EXCEPT !.pc = "thrown", !.errorMessage = errorMessage,
                       !.isError = isError,
                       !.error = IF retryable THEN <<UnavailableMessage>>
                                 ELSE IF isError THEN <<FailedPrefix(v.fn)>> \o message
                                 ELSE <<UnknownMessage(v.fn)>>]

\* a variant that takes the first part of any response for the image
HasInlineImage_AnyPart(outcome) == outcome.kind # "reject"

\* does the response carry an inline image part
HasInlineImage(outcome) == outcome.kind = "image"

\* a variant that raises the text-only error past the catch block
Settle_TextTerminal(v, outcome) ==
    LET w == [v EXCEPT !.last = outcome.kind] IN
    IF outcome.kind = "reject"
    THEN Catch(w, outcome.isError, outcome.text)
    ELSE IF HasInlineImage(outcome)
    THEN [w EXCEPT !.pc = "returned", !.result = outcome.url]
    ELSE [w EXCEPT !.pc = "thrown",
                   !.errorMessage = TextInsteadOfImage(outcome.text),
                   !.error = <<FailedPrefix(v.fn)>> \o TextInsteadOfImage(outcome.text)]

\* the try block after the await, then the catch block
Settle(v, outcome) ==
    LET w == [v EXCEPT !.last = outcome.kind] IN
    IF outcome.kind = "reject"
    THEN Catch(w, outcome.isError, outcome.text)
    ELSE IF HasInlineImage(outcome)
    THEN [w EXCEPT !.pc = "returned", !.result = outcome.url]
    ELSE Catch(w, TRUE, TextInsteadOfImage(outcome.text))

\* the backoff timer fires: attempt++ and the next turn of the loop
Resume(v) == EnterAttempt(v, v.attempt + 1)

Settled(v) == v.pc \in {"returned", "thrown"}
InFlight(v) == v.pc \in {"calling", "waiting"}

(***************************************************************************)
(* Record<string, GeneratedImage>: the entries in insertion order          *)
(***************************************************************************)
Pending(pose) == [pose |-> pose, status |-> "pending", url |-> Null, error |-> <<>>]
Done(pose, url) == [pose |-> pose, status |-> "done", url |-> url, error |-> <<>>]
Failed(pose, message) == [pose |-> pose, status |-> "error", url |-> Null, error |-> message]

Has(m, pose) == \E i \in 1..Len(m) : m[i].pose = pose
Get(m, pose) == m[CHOOSE i \in 1..Len(m) : m[i].pose = pose]

\* a variant that pushes onto a list instead of assigning a key
Put_Push(m, entry) == Append(m, entry)

\* { ...m, [entry.pose]: entry }: an existing key keeps its place
Put(m, entry) ==
    IF Has(m, entry.pose)
    THEN [i \in 1..Len(m) |-> IF m[i].pose = entry.pose THEN entry ELSE m[i]]
    ELSE Append(m, entry)

\* `status === 'done' && url`
IsCompleted(entry) == entry.status = "done" /\ entry.url # Null

\* Object.entries(m).filter(completed), order kept
CompletedEntries(m) == SelectSeq(m, IsCompleted)

Take(s, n) == SubSeq(s, 1, IF Len(s) < n THEN Len(s) ELSE n)

\* err instanceof Error ? err.message : "An unknown error occurred."
\* (everything the service throws is an Error)
CaughtMessage(r) == r.error

(***************************************************************************)
(* createCharacterSheet: the grid of cards, in hundredths of a pixel        *)
(***************************************************************************)
Px(n) == n * 100

canvasWidth == 3508
canvasHeight == 2480
gridCols == 3
gridRows == 2
gridPadding == 100
contentTopMargin == 300

contentHeight == canvasHeight - contentTopMargin
cellWidth == Px(canvasWidth - gridPadding * (gridCols + 1)) \div gridCols
cellHeight == Px(contentHeight - gridPadding * (gridRows + 1)) \div gridRows

\* cellWidth * 0.95, cellHeight * 0.95
maxCardWidth == (cellWidth * 95) \div 100
maxCardHeight == (cellHeight * 95) \div 100

\* cardAspectRatio = 5 / 4 (h/w); the card is shrunk to the cell's height
cardHeight ==
    IF (maxCardWidth * 5) \div 4 > maxCardHeight THEN maxCardHeight
    ELSE (maxCardWidth * 5) \div 4
cardWidth ==
    IF (maxCardWidth * 5) \div 4 > maxCardHeight THEN (maxCardHeight * 4) \div 5
    ELSE maxCardWidth

\* a variant that divides by the number of rows
CardRow_ByRows(index) == index \div gridRows

\* Math.floor(index / grid.cols), index % grid.cols (index from 0)
CardRow(index) == index \div gridCols
CardCol(index) == index % gridCols

CardX(col) == Px(gridPadding * (col + 1)) + cellWidth * col + (cellWidth - cardWidth) \div 2
CardY(row) ==
    Px(contentTopMargin + gridPadding * (row + 1)) + cellHeight * row
        + (cellHeight - cardHeight) \div 2

\* imagesWithPoses.forEach: one card per completed image
LayoutSheet(imageData) ==
    LET completedImages == CompletedEntries(imageData) IN
    [k \in 1..Len(completedImages) |->
        [pose |-> completedImages[k].pose,
         url |-> completedImages[k].url,
         index |-> k - 1,
         row |-> CardRow(k - 1),
         col |-> CardCol(k - 1),
         x |-> CardX(CardCol(k - 1)),
         y |-> CardY(CardRow(k - 1))]]

(***************************************************************************)
(* State                                                                   *)
(***************************************************************************)
VARIABLES
    appState,               \* useState<AppState>
    uploadedImage,          \* data URL of the upload, or Null
    reader,                 \* the files a FileReader is reading (readAsDataURL)
    generatedImages,        \* Record<string, GeneratedImage>
    isDownloading,
    selectedStyle,          \* "2D" | "3D" | Null
    selectedDetailedStyle,  \* style id | Null
    baseModelImage,         \* data URL | Null
    scenePrompt,
    generatedScene,         \* [url, prompt], url = Null when there is none
    isGeneratingScene,
    editingImage,
    editingContext,
    task,                   \* the async handler of App that is awaiting
    inv,                    \* its invocation of the service
    dl,                     \* createCharacterSheet awaiting its images
    editor,                 \* the mounted CharacterEditor: image, isGenerating,
                            \* annotations
    edits,                  \* the handleGenerate calls of editors that are awaiting
    sheet,                  \* the cards drawn by the last createCharacterSheet
    sheetCall,              \* the last call of createCharacterSheet: its promise,
                            \* the images that loaded, the calls of onComplete
    visited,                \* history: the values appState has had
    sheetLog                \* history: the requests of the current sheet run

vars == <<appState, uploadedImage, reader, generatedImages, isDownloading, selectedStyle,
          selectedDetailedStyle, baseModelImage, scenePrompt, generatedScene,
          isGeneratingScene, editingImage, editingContext, task, inv, dl, editor,
          edits, sheet, sheetCall, visited, sheetLog>>

NoTask == [kind |-> "none", pc |-> "none", idx |-> 0,
           uploadedImage |-> Null, baseModelImage |-> Null, prompt |-> ""]
NoScene == [url |-> Null, prompt |-> ""]
NoDownload == [pc |-> "none", imageData |-> <<>>]
NoSheetCall == [promise |-> "none", ctx |-> FALSE, loaded |-> {}, onComplete |-> <<>>]
\* CharacterEditor when it mounts.  loading: the useEffect that loads
\* characterImage is awaiting loadImage; calls: the calls of onImageGenerated
\* and onError that the last handleGenerate of this editor has made
NoEditor == [image |-> Null, isGenerating |-> FALSE, loading |-> FALSE,
             annotations |-> <<>>, calls |-> <<>>]

ScenePrompts == {"", " ", "ride a dragon"}
\* String.prototype.trim
Trim(str) == IF str = " " THEN "" ELSE str

\* the files a user can pick: its size and what FileReader ends with
Files == [size : {MAX_FILE_SIZE_BYTES - 1, MAX_FILE_SIZE_BYTES, MAX_FILE_SIZE_BYTES + 1},
          result : UploadUrls \cup {Null}]

\* the outcomes of generateContent the App is run against
AppOutcomes ==
    { o \in ApiOutcomes :
        \/ o.kind = "image" /\ o.url = "g1"
        \/ o.kind = "reject" /\ o.isError /\ o.text = <<"\"code\":429">> }

Init ==
    /\ appState = "idle"
    /\ uploadedImage = Null
    /\ reader = <<>>
    /\ generatedImages = <<>>
    /\ isDownloading = FALSE
    /\ selectedStyle = Null
    /\ selectedDetailedStyle = Null
    /\ baseModelImage = Null
    /\ scenePrompt = ""
    /\ generatedScene = NoScene
    /\ isGeneratingScene = FALSE
    /\ editingImage = Null
    /\ editingContext = "character"
    /\ task = NoTask
    /\ inv = NoInvocation
    /\ dl = NoDownload
    /\ editor = NoEditor
    /\ edits = <<>>
    /\ sheet = <<>>
    /\ sheetCall = NoSheetCall
    /\ visited = {"idle"}
    /\ sheetLog = <<>>

Visit == visited' = visited \cup {appState'}

\* a step that draws no sheet
NoSheet == UNCHANGED <<sheet, sheetCall>>

Frame == Visit /\ NoSheet /\ UNCHANGED <<reader, editor, edits>>

\* the frame of the steps of the editor
EditorFrame == Visit /\ NoSheet /\ UNCHANGED reader

\* a handler that returns at its first check
Return ==
    /\ UNCHANGED <<appState, uploadedImage, reader, generatedImages, isDownloading,
                   selectedStyle, selectedDetailedStyle, baseModelImage, scenePrompt,
                   generatedScene, isGeneratingScene, editingImage, editingContext,
                   task, inv, dl, editor, edits, visited, sheetLog>>
    /\ NoSheet

(***************************************************************************)
(* The service, as awaited by the handlers of App                          *)
(***************************************************************************)
\* the promise of ai.models.generateContent settles
ApiRespondsWith(outcomes) ==
    /\ inv.pc = "calling"
    /\ \E outcome \in outcomes : inv' = Settle(inv, outcome)
    /\ UNCHANGED <<appState, uploadedImage, generatedImages, isDownloading,
                   selectedStyle, selectedDetailedStyle, baseModelImage, scenePrompt,
                   generatedScene, isGeneratingScene, editingImage, editingContext,
                   task, dl, sheetLog>>
    /\ Frame

ApiResponds == ApiRespondsWith(AppOutcomes)

\* the setTimeout of the backoff fires
BackoffElapsed ==
    /\ inv.pc = "waiting"
    /\ inv' = Resume(inv)
    /\ UNCHANGED <<appState, uploadedImage, generatedImages, isDownloading,
                   selectedStyle, selectedDetailedStyle, baseModelImage, scenePrompt,
                   generatedScene, isGeneratingScene, editingImage, editingContext,
                   task, dl, sheetLog>>
    /\ Frame

(***************************************************************************)
(* Upload and style selection                                              *)
(***************************************************************************)
\* `file.size > MAX_FILE_SIZE_BYTES`
TooLarge(size) == size > MAX_FILE_SIZE_BYTES

\* handleImageUpload: an alert and a return for a file that is too large,
\* reader.readAsDataURL(file) for any other.  The read of a file is taken to
\* end before the next input (the file input is the only control of the idle
\* view).
handleImageUpload ==
    /\ appState = "idle" /\ reader = <<>>
    /\ \E file \in Files :
        reader' = IF TooLarge(file.size) THEN reader ELSE <<file>>
    /\ UNCHANGED <<appState, uploadedImage, generatedImages, baseModelImage,
                   selectedStyle, selectedDetailedStyle, isDownloading, scenePrompt,
                   generatedScene, isGeneratingScene, editingImage, editingContext,
                   task, inv, dl, sheetLog>>
    /\ Visit /\ NoSheet /\ UNCHANGED <<editor, edits>>

\* reader.onloadend; reader.result is Null when the read has failed
onloadend ==
    /\ reader # <<>>
    /\ uploadedImage' = Head(reader).result
    /\ appState' = "style-selection"
    /\ generatedImages' = <<>>
    /\ baseModelImage' = Null
    /\ selectedStyle' = Null
    /\ selectedDetailedStyle' = Null
    /\ reader' = Tail(reader)
    /\ UNCHANGED <<isDownloading, scenePrompt, generatedScene, isGeneratingScene,
                   editingImage, editingContext, task, inv, dl, sheetLog>>
    /\ Visit /\ NoSheet /\ UNCHANGED <<editor, edits>>

\* styles.filter(style => style.type === selectedStyle)
getFilteredStyles == {style \in CARTOON_STYLES : style.type = selectedStyle}

SelectBasicStyle ==
    /\ appState = "style-selection" /\ uploadedImage # Null
    /\ \E type \in {"2D", "3D"} : selectedStyle' = type
    /\ selectedDetailedStyle' = Null
    /\ UNCHANGED <<appState, uploadedImage, generatedImages, isDownloading,
                   baseModelImage, scenePrompt, generatedScene, isGeneratingScene,
                   editingImage, editingContext, task, inv, dl, sheetLog>>
    /\ Frame

SelectDetailedStyle ==
    /\ appState = "style-selection" /\ uploadedImage # Null
    /\ selectedStyle # Null
    /\ \E style \in getFilteredStyles : selectedDetailedStyle' = style.id
    /\ UNCHANGED <<appState, uploadedImage, generatedImages, isDownloading,
                   selectedStyle, baseModelImage, scenePrompt, generatedScene,
                   isGeneratingScene, editingImage, editingContext, task, inv, dl, sheetLog>>
    /\ Frame

(***************************************************************************)
(* Base model                                                              *)
(***************************************************************************)
generateBaseModel ==
    IF uploadedImage = Null \/ selectedStyle = Null \/ selectedDetailedStyle = Null
    THEN Return
    ELSE /\ appState' = "generating-base"
         /\ generatedImages' = <<Pending(POSES[1])>>
         /\ inv' = StartInvocation("character", <<uploadedImage>>, TRUE)
         /\ task' = [NoTask EXCEPT !.kind = "base", !.pc = "gen"]
         /\ UNCHANGED <<uploadedImage, isDownloading, selectedStyle,
                        selectedDetailedStyle, baseModelImage, scenePrompt,
                        generatedScene, isGeneratingScene, editingImage,
                        editingContext, dl, sheetLog>>
         /\ Frame

\* `{appState === 'approval' && baseModelImage && (` around the approval view
\* and its buttons Edit Character, Perfect! Generate Full Sheet, Try Again
ApprovalShown == appState = "approval" /\ baseModelImage # Null

\* the button "Generate Character"
ClickGenerateCharacter ==
    /\ appState = "style-selection" /\ uploadedImage # Null
    /\ selectedStyle # Null /\ selectedDetailedStyle # Null
    /\ generateBaseModel

\* the button "Try Again"
handleRetryBaseModel ==
    /\ ApprovalShown
    /\ generateBaseModel

\* generateBaseModel after `await generateCharacterImage`: the try and the catch
BaseModelRecord(r) ==
    IF r.pc = "returned" THEN Done(POSES[1], r.result)
    ELSE Failed(POSES[1], CaughtMessage(r))

BaseModelSettled ==
    /\ task.kind = "base" /\ Settled(inv)
    /\ generatedImages' = <<BaseModelRecord(inv)>>
    /\ baseModelImage' = IF inv.pc = "returned" THEN inv.result ELSE baseModelImage
    /\ appState' = "approval"
    /\ task' = NoTask
    /\ inv' = NoInvocation
    /\ UNCHANGED <<uploadedImage, isDownloading, selectedStyle, selectedDetailedStyle,
                   scenePrompt, generatedScene, isGeneratingScene, editingImage,
                   editingContext, dl, sheetLog>>
    /\ Frame

(***************************************************************************)
(* Character sheet: the five remaining poses                               *)
(***************************************************************************)
\* remainingPoses.forEach(pose => initialImages[pose] = { status: 'pending' })
RECURSIVE WithPending(_, _)
WithPending(images, idx) ==
    IF idx > Len(POSES) THEN images
    ELSE WithPending(Put(images, Pending(POSES[idx])), idx + 1)

LogEvent(ev, pose) ==
    [ev |-> ev, pose |-> pose, ms |-> IF ev = "delay" THEN poseDelay ELSE 0]

\* processPose up to `await generateCharacterImage`
RequestPose(uploaded, base) == StartInvocation("character", <<uploaded, base>>, TRUE)

\* the button "Perfect! Generate Full Sheet"
handleApproveAndGenerateSheet ==
    /\ ApprovalShown
    /\ IF uploadedImage = Null \/ baseModelImage = Null
          \/ selectedStyle = Null \/ selectedDetailedStyle = Null
       THEN Return
       ELSE /\ appState' = "generating-sheet"
            /\ generatedImages' = WithPending(generatedImages, 2)
            /\ task' = [NoTask EXCEPT !.kind = "sheet", !.pc = "gen", !.idx = 2,
                                      !.uploadedImage = uploadedImage,
                                      !.baseModelImage = baseModelImage]
            /\ inv' = RequestPose(uploadedImage, baseModelImage)
            /\ sheetLog' = <<LogEvent("request", POSES[2])>>
            /\ UNCHANGED <<uploadedImage, isDownloading, selectedStyle,
                           selectedDetailedStyle, baseModelImage, scenePrompt,
                           generatedScene, isGeneratingScene, editingImage,
                           editingContext, dl>>
            /\ Frame

\* a variant whose catch leaves the pose pending
PoseRecord_Swallowed(pose, r) ==
    IF r.pc = "returned" THEN Done(pose, r.result) ELSE Pending(pose)

\* processPose after the await: the try and the catch
PoseRecord(pose, r) ==
    IF r.pc = "returned" THEN Done(pose, r.result)
    ELSE Failed(pose, CaughtMessage(r))

PoseSettled ==
    /\ task.kind = "sheet" /\ task.pc = "gen" /\ Settled(inv)
    /\ generatedImages' = Put(generatedImages, PoseRecord(POSES[task.idx], inv))
    /\ task' = [task EXCEPT !.pc = "delay"]
    /\ sheetLog' = Append(sheetLog, LogEvent("completed", POSES[task.idx]))
    /\ inv' = NoInvocation
    /\ UNCHANGED <<appState, uploadedImage, isDownloading, selectedStyle,
                   selectedDetailedStyle, baseModelImage, scenePrompt, generatedScene,
                   isGeneratingScene, editingImage, editingContext, dl>>
    /\ Frame

\* a variant that stops one pose early
HasNextPose_OneShort(idx) == idx < Len(POSES) - 1

\* is there a pose after POSES[idx] in `for (const pose of remainingPoses)`
HasNextPose(idx) == idx < Len(POSES)

\* the 1000 ms timer after a pose fires: the next pose, or the end of the loop
PoseDelayElapsed ==
    /\ task.kind = "sheet" /\ task.pc = "delay"
    /\ IF HasNextPose(task.idx)
       THEN /\ task' = [task EXCEPT !.pc = "gen", !.idx = @ + 1]
            /\ inv' = RequestPose(task.uploadedImage, task.baseModelImage)
            /\ sheetLog' = sheetLog \o <<LogEvent("delay", POSES[task.idx]),
                                         LogEvent("request", POSES[task.idx + 1])>>
            /\ UNCHANGED appState
       ELSE /\ task' = NoTask
            /\ appState' = "results-shown"
            /\ sheetLog' = Append(sheetLog, LogEvent("delay", POSES[task.idx]))
            /\ UNCHANGED inv
    /\ UNCHANGED <<uploadedImage, generatedImages, isDownloading, selectedStyle,
                   selectedDetailedStyle, baseModelImage, scenePrompt, generatedScene,
                   isGeneratingScene, editingImage, editingContext, dl>>
    /\ Frame

\* a variant that shows the buttons with the whole results view
ResultsButtonsShown_WithGrid == appState \in {"generating-sheet", "results-shown"}

\* `{appState === 'results-shown' && (` around the buttons under the grid
ResultsButtonsShown == appState = "results-shown"

handleReset ==
    /\ ResultsButtonsShown
    /\ uploadedImage' = Null
    /\ generatedImages' = <<>>
    /\ appState' = "idle"
    /\ baseModelImage' = Null
    /\ selectedStyle' = Null
    /\ selectedDetailedStyle' = Null
    /\ scenePrompt' = ""
    /\ generatedScene' = NoScene
    /\ UNCHANGED <<isDownloading, isGeneratingScene, editingImage, editingContext,
                   task, inv, dl, sheetLog>>
    /\ Frame

(***************************************************************************)
(* "Download Full Sheet": createCharacterSheet(generatedImages, ...)       *)
(***************************************************************************)
\* canvas.toDataURL('image/jpeg', 0.9) of the canvas the cards are drawn on
toDataURL(cards) == <<"data:image/jpeg", cards>>

\* Promise.all of n loadImage promises, of which those in loaded are fulfilled:
\* allSettled instead would go on to draw whatever the failures were
PromiseAll_AllSettled(n, loaded) == loaded \subseteq 1..n

\* Promise.all is fulfilled when each of its promises is, and rejected otherwise
PromiseAll(n, loaded) == loaded = 1..n

\* The onClick of the button "Download Full Sheet", which calls
\* createCharacterSheet itself.  handleDownloadSheet, which alerts "Please wait
\* for all images to finish generating" when fewer than POSES.length images are
\* done, is bound to no control and never runs.
DownloadFullSheet ==
    /\ ResultsButtonsShown /\ ~isDownloading
    /\ \E ctxOk \in BOOLEAN :
        IF ctxOk
        THEN /\ isDownloading' = TRUE
             /\ dl' = [pc |-> "loading", imageData |-> generatedImages]
             /\ sheetCall' = [NoSheetCall EXCEPT !.promise = "pending", !.ctx = TRUE]
        ELSE /\ isDownloading' = FALSE
             /\ UNCHANGED dl
             /\ sheetCall' = [NoSheetCall EXCEPT !.promise = "rejected"]
    /\ UNCHANGED <<appState, uploadedImage, generatedImages, selectedStyle,
                   selectedDetailedStyle, baseModelImage, scenePrompt, generatedScene,
                   isGeneratingScene, editingImage, editingContext, task, inv, sheetLog>>
    /\ Visit /\ UNCHANGED <<sheet, reader, editor, edits>>

\* Promise.all of the loadImage calls settles; on fulfilment the cards are
\* drawn and onComplete(sheetUrl) is called, on rejection the function throws
SheetImagesSettled ==
    /\ dl.pc = "loading"
    /\ \E loaded \in SUBSET (1..Len(CompletedEntries(dl.imageData))) :
        IF PromiseAll(Len(CompletedEntries(dl.imageData)), loaded)
        THEN /\ sheet' = LayoutSheet(dl.imageData)
             /\ sheetCall' = [sheetCall EXCEPT
                    !.promise = "fulfilled", !.loaded = loaded,
                    !.onComplete = Append(@, toDataURL(LayoutSheet(dl.imageData)))]
        ELSE /\ UNCHANGED sheet
             /\ sheetCall' = [sheetCall EXCEPT !.promise = "rejected", !.loaded = loaded]
    /\ dl' = NoDownload
    /\ isDownloading' = FALSE
    /\ UNCHANGED <<appState, uploadedImage, generatedImages, selectedStyle,
                   selectedDetailedStyle, baseModelImage, scenePrompt, generatedScene,
                   isGeneratingScene, editingImage, editingContext, task, inv,
                   sheetLog>>
    /\ Visit /\ UNCHANGED <<reader, editor, edits>>

(***************************************************************************)
(* Scene generator                                                         *)
(***************************************************************************)
handleOpenSceneGenerator ==
    /\ ResultsButtonsShown
    /\ appState' = "scene-generator"
    /\ UNCHANGED <<uploadedImage, generatedImages, isDownloading, selectedStyle,
                   selectedDetailedStyle, baseModelImage, scenePrompt, generatedScene,
                   isGeneratingScene, editingImage, editingContext, task, inv, dl, sheetLog>>
    /\ Frame

\* the textarea of the scene prompt
SetScenePrompt ==
    /\ appState = "scene-generator"
    /\ \E text \in ScenePrompts : scenePrompt' = text
    /\ UNCHANGED <<appState, uploadedImage, generatedImages, isDownloading,
                   selectedStyle, selectedDetailedStyle, baseModelImage, generatedScene,
                   isGeneratingScene, editingImage, editingContext, task, inv, dl, sheetLog>>
    /\ Frame

\* [baseModelImage, ...up to 2 completed pose images]
RECURSIVE UrlsOf(_)
UrlsOf(entries) ==
    IF entries = <<>> THEN <<>> ELSE <<Head(entries).url>> \o UrlsOf(Tail(entries))

allReferenceImages == <<baseModelImage>> \o UrlsOf(Take(CompletedEntries(generatedImages), 2))

\* the button "Generate Scene" (disabled while the prompt is blank)
handleGenerateScene ==
    /\ appState = "scene-generator" /\ Trim(scenePrompt) # ""
    /\ IF Trim(scenePrompt) = "" \/ selectedDetailedStyle = Null
       THEN Return
       ELSE /\ isGeneratingScene' = TRUE
            /\ appState' = "generating-scene"
            /\ \E ctxOk \in BOOLEAN :
                 inv' = StartInvocation("scene", allReferenceImages \o <<"canvas">>, ctxOk)
            /\ task' = [NoTask EXCEPT !.kind = "scene", !.pc = "gen",
                                      !.prompt = scenePrompt]
            /\ UNCHANGED <<uploadedImage, generatedImages, isDownloading, selectedStyle,
                           selectedDetailedStyle, baseModelImage, scenePrompt,
                           generatedScene, editingImage, editingContext, dl, sheetLog>>
            /\ Frame

\* handleGenerateScene after `await generateSceneImage`: try, catch, finally
SceneSettled ==
    /\ task.kind = "scene" /\ Settled(inv)
    /\ IF inv.pc = "returned"
       THEN /\ generatedScene' = [url |-> inv.result, prompt |-> task.prompt]
            /\ appState' = "scene-results"
       ELSE /\ appState' = "scene-generator"
            /\ UNCHANGED generatedScene
    /\ isGeneratingScene' = FALSE
    /\ task' = NoTask
    /\ inv' = NoInvocation
    /\ UNCHANGED <<uploadedImage, generatedImages, isDownloading, selectedStyle,
                   selectedDetailedStyle, baseModelImage, scenePrompt, editingImage,
                   editingContext, dl, sheetLog>>
    /\ Frame

\* "Back to Character Sheet" of the scene generator and of the scene results
BackToCharacterSheet ==
    /\ \/ appState = "scene-generator"
       \/ appState = "scene-results" /\ generatedScene.url # Null
    /\ appState' = "results-shown"
    /\ UNCHANGED <<uploadedImage, generatedImages, isDownloading, selectedStyle,
                   selectedDetailedStyle, baseModelImage, scenePrompt, generatedScene,
                   isGeneratingScene, editingImage, editingContext, task, inv, dl, sheetLog>>
    /\ Frame

\* "Generate Another Scene"
GenerateAnotherScene ==
    /\ appState = "scene-results" /\ generatedScene.url # Null
    /\ appState' = "scene-generator"
    /\ UNCHANGED <<uploadedImage, generatedImages, isDownloading, selectedStyle,
                   selectedDetailedStyle, baseModelImage, scenePrompt, generatedScene,
                   isGeneratingScene, editingImage, editingContext, task, inv, dl, sheetLog>>
    /\ Frame

(***************************************************************************)
(* Character editor                                                        *)
(***************************************************************************)
\* a variant that leaves the context at its default
handleOpenCharacterEditor_DefaultContext(imageUrl, context) ==
    /\ editingImage' = imageUrl
    /\ editingContext' = "character"
    /\ appState' = "character-editor"
    /\ UNCHANGED <<uploadedImage, generatedImages, isDownloading, selectedStyle,
                   selectedDetailedStyle, baseModelImage, scenePrompt, generatedScene,
                   isGeneratingScene, task, inv, dl, sheetLog>>
    /\ editor' = [NoEditor EXCEPT !.loading = TRUE]
    /\ UNCHANGED edits
    /\ EditorFrame

handleOpenCharacterEditor(imageUrl, context) ==
    /\ editingImage' = imageUrl
    /\ editingContext' = context
    /\ appState' = "character-editor"
    /\ UNCHANGED <<uploadedImage, generatedImages, isDownloading, selectedStyle,
                   selectedDetailedStyle, baseModelImage, scenePrompt, generatedScene,
                   isGeneratingScene, task, inv, dl, sheetLog>>
    /\ editor' = [NoEditor EXCEPT !.loading = TRUE]
    /\ UNCHANGED edits
    /\ EditorFrame

\* the button "Edit Character"
EditCharacter ==
    /\ ApprovalShown
    /\ handleOpenCharacterEditor(baseModelImage, "character")

\* the button "Edit Scene"
EditScene ==
    /\ appState = "scene-results" /\ generatedScene.url # Null
    /\ handleOpenCharacterEditor(generatedScene.url, "scene")

\* the awaiting handleGenerate calls of an editor that is unmounted
Unmounted(es) == [i \in 1..Len(es) |-> [es[i] EXCEPT !.mounted = FALSE]]

\* a variant that always leaves the editor for the character sheet
CloseTarget_Results ==
    IF editingContext = "scene" THEN "scene-results" ELSE "results-shown"

\* where handleCloseCharacterEditor goes
CloseTarget ==
    IF editingContext = "scene" THEN "scene-results"
    ELSE IF baseModelImage # Null THEN "approval"
    ELSE "results-shown"

\* onClose of the editor
handleCloseCharacterEditor ==
    /\ appState = "character-editor" /\ editingImage # Null
    /\ editingImage' = Null
    /\ editingContext' = "character"
    /\ appState' = IF appState = "character-editor" THEN CloseTarget ELSE appState
    /\ UNCHANGED <<uploadedImage, generatedImages, isDownloading, selectedStyle,
                   selectedDetailedStyle, baseModelImage, scenePrompt, generatedScene,
                   isGeneratingScene, task, inv, dl, sheetLog>>
    /\ editor' = NoEditor
    /\ edits' = Unmounted(edits)
    /\ EditorFrame

(***************************************************************************)
(* CharacterEditor: the image of the editor and handleGenerate             *)
(***************************************************************************)
\* the outcomes of generateContent the editor is run against: an image or an
\* error that is not retried (the retries are those of SpecService)
EditOutcomes ==
    { o \in ApiOutcomes :
        \/ o.kind = "image" /\ o.url = "g2"
        \/ o.kind = "reject" /\ o.isError /\ o.text = <<"\"code\":400">> }

\* useEffect: loadImage(characterImage) settles
EditorImageLoaded ==
    /\ appState = "character-editor" /\ editingImage # Null
    /\ editor.loading
    /\ \E loaded \in BOOLEAN :
         editor' = [editor EXCEPT !.loading = FALSE,
                                  !.image = IF loaded THEN editingImage ELSE @]
    /\ UNCHANGED <<appState, uploadedImage, generatedImages, isDownloading,
                   selectedStyle, selectedDetailedStyle, baseModelImage, scenePrompt,
                   generatedScene, isGeneratingScene, editingImage, editingContext,
                   task, inv, dl, edits, sheetLog>>
    /\ EditorFrame

\* useAnnotations().endDrawing: a stroke is added to the annotations
endDrawing ==
    /\ appState = "character-editor" /\ editingImage # Null
    /\ Len(editor.annotations) < MaxAnnotations
    /\ editor' = [editor EXCEPT !.annotations = Append(@, "draw")]
    /\ UNCHANGED <<appState, uploadedImage, generatedImages, isDownloading,
                   selectedStyle, selectedDetailedStyle, baseModelImage, scenePrompt,
                   generatedScene, isGeneratingScene, editingImage, editingContext,
                   task, inv, dl, edits, sheetLog>>
    /\ EditorFrame

\* the button "Generate" (disabled={!image || isGenerating}): handleGenerate up
\* to `await generateCharacterImage`
handleGenerate ==
    /\ appState = "character-editor" /\ editingImage # Null
    /\ editor.image # Null /\ ~editor.isGenerating
    /\ Len(edits) < MaxInFlightEdits
    /\ \E ctxOk \in BOOLEAN :
         IF ctxOk
         THEN /\ editor' = [editor EXCEPT !.isGenerating = TRUE, !.calls = <<>>]
              /\ edits' = Append(edits,
                    [context |-> editingContext, mounted |-> TRUE, pc |-> "gen",
                     v |-> StartInvocation("character", <<"canvas">>, TRUE)])
         ELSE /\ editor' = [editor EXCEPT
                    !.calls = <<<<"onError", <<"Failed to get canvas context">>>>>>]
              /\ UNCHANGED edits
    /\ UNCHANGED <<appState, uploadedImage, generatedImages, isDownloading,
                   selectedStyle, selectedDetailedStyle, baseModelImage, scenePrompt,
                   generatedScene, isGeneratingScene, editingImage, editingContext,
                   task, inv, dl, sheetLog>>
    /\ EditorFrame

Remove(seq, i) == SubSeq(seq, 1, i - 1) \o SubSeq(seq, i + 1, Len(seq))

EditApiResponds ==
    /\ \E i \in 1..Len(edits) :
         /\ edits[i].pc = "gen" /\ edits[i].v.pc = "calling"
         /\ \E outcome \in EditOutcomes :
              edits' = [edits EXCEPT ![i].v = Settle(@, outcome)]
    /\ UNCHANGED <<appState, uploadedImage, generatedImages, isDownloading,
                   selectedStyle, selectedDetailedStyle, baseModelImage, scenePrompt,
                   generatedScene, isGeneratingScene, editingImage, editingContext,
                   task, inv, dl, editor, sheetLog>>
    /\ EditorFrame

\* a variant whose clearAll() is in the finally block
CatchOf_ClearsAll(edit, ed, errorMessage) ==
    IF edit.mounted
    THEN [ed EXCEPT !.isGenerating = FALSE,
                    !.annotations = <<>>,
                    !.calls = Append(@, <<"onError", errorMessage>>)]
    ELSE ed

\* the catch block of handleGenerate, `onError?.(errorMessage)`, and the
\* finally, `setIsGenerating(false)`; the setters do nothing once the editor
\* is unmounted
CatchOf(edit, ed, errorMessage) ==
    IF edit.mounted
    THEN [ed EXCEPT !.isGenerating = FALSE,
                    !.calls = Append(@, <<"onError", errorMessage>>)]
    ELSE ed

\* useAnnotations().clearAll
clearAll(annotations) == <<>>

\* does handleCharacterEdited make App render again: setGeneratedImages always
\* sets a new object, setGeneratedScene leaves a null scene as it is
Rerenders(context) == context # "scene" \/ generatedScene.url # Null

\* the mounted editor after App has rendered again: onError is a new function,
\* so the useEffect that loads characterImage runs again
AfterRender(ed, rendered) ==
    IF rendered /\ appState = "character-editor" /\ editingImage # Null
    THEN [ed EXCEPT !.loading = TRUE] ELSE ed

\* the try block of handleGenerate after `await loadImage(resultUrl)`:
\* setImage(newImage), clearAll(), onImageGenerated(resultUrl), and the finally
TryOf(edit, ed) ==
    IF edit.mounted
    THEN [ed EXCEPT !.image = edit.v.result,
                    !.annotations = clearAll(@),
                    !.calls = Append(@, <<"onImageGenerated", edit.v.result>>),
                    !.isGenerating = FALSE]
    ELSE ed

\* handleGenerate after `await generateCharacterImage`: on to loadImage(resultUrl),
\* or the catch (onError) and the finally
EditSettled ==
    /\ \E i \in 1..Len(edits) :
         /\ edits[i].pc = "gen" /\ Settled(edits[i].v)
         /\ IF edits[i].v.pc = "returned"
            THEN /\ edits' = [edits EXCEPT ![i].pc = "loading"]
                 /\ UNCHANGED editor
            ELSE /\ edits' = Remove(edits, i)
                 /\ editor' = CatchOf(edits[i], editor, edits[i].v.error)
    /\ UNCHANGED <<appState, uploadedImage, generatedImages, isDownloading,
                   selectedStyle, selectedDetailedStyle, baseModelImage, scenePrompt,
                   generatedScene, isGeneratingScene, editingImage, editingContext,
                   task, inv, dl, sheetLog>>
    /\ EditorFrame

\* a variant that stores a new scene object
EditedScene_NewScene(context, editedImageUrl) ==
    IF context = "scene"
    THEN IF generatedScene.url # Null
         THEN [url |-> editedImageUrl, prompt |-> ""] ELSE NoScene
    ELSE generatedScene

\* handleCharacterEdited, with the editingContext of the render that passed it
EditedScene(context, editedImageUrl) ==
    IF context = "scene"
    THEN IF generatedScene.url # Null
         THEN [generatedScene EXCEPT !.url = editedImageUrl] ELSE NoScene
    ELSE generatedScene

EditedBaseModel(context, editedImageUrl) ==
    IF context = "scene" THEN baseModelImage ELSE editedImageUrl

EditedImages(context, editedImageUrl) ==
    IF context = "scene" THEN generatedImages
    ELSE Put(generatedImages, Done(POSES[1], editedImageUrl))

handleCharacterEdited(context, editedImageUrl) ==
    /\ generatedScene' = EditedScene(context, editedImageUrl)
    /\ baseModelImage' = EditedBaseModel(context, editedImageUrl)
    /\ generatedImages' = EditedImages(context, editedImageUrl)

\* handleGenerate after `await loadImage(resultUrl)`: setImage, clearAll,
\* onImageGenerated; or the catch; then the finally
EditImageLoaded ==
    /\ \E i \in 1..Len(edits) :
         /\ edits[i].pc = "loading"
         /\ \E loaded \in BOOLEAN :
              IF loaded
              THEN /\ editor' = AfterRender(TryOf(edits[i], editor),
                                            Rerenders(edits[i].context))
                   /\ handleCharacterEdited(edits[i].context, edits[i].v.result)
              ELSE /\ editor' = CatchOf(edits[i], editor, <<"Failed to load image:">>)
                   /\ UNCHANGED <<generatedScene, baseModelImage, generatedImages>>
         /\ edits' = Remove(edits, i)
    /\ UNCHANGED <<appState, uploadedImage, isDownloading, selectedStyle,
                   selectedDetailedStyle, scenePrompt, isGeneratingScene,
                   editingImage, editingContext, task, inv, dl, sheetLog>>
    /\ EditorFrame

\* The steps of App.  "Download Full Sheet" reads generatedImages and writes
\* nothing of App but isDownloading: it is run in SpecSheet.  styleExamples and
\* lightboxImage are left out: no handler reads them.
Next ==
    \/ ApiResponds
    \/ BackoffElapsed
    \/ handleImageUpload
    \/ onloadend
    \/ SelectBasicStyle
    \/ SelectDetailedStyle
    \/ ClickGenerateCharacter
    \/ handleRetryBaseModel
    \/ BaseModelSettled
    \/ handleApproveAndGenerateSheet
    \/ PoseSettled
    \/ PoseDelayElapsed
    \/ handleReset
    \/ handleOpenSceneGenerator
    \/ SetScenePrompt
    \/ handleGenerateScene
    \/ SceneSettled
    \/ BackToCharacterSheet
    \/ GenerateAnotherScene
    \/ EditCharacter
    \/ EditScene
    \/ handleCloseCharacterEditor
    \/ EditorImageLoaded
    \/ handleGenerate
    \/ EditApiResponds
    \/ EditSettled
    \/ EditImageLoaded

Spec == Init /\ [][Next]_vars

(***************************************************************************)
(* The service on its own: any caller, every outcome of generateContent    *)
(***************************************************************************)
ServiceArguments == { <<"photo">>, <<"photo", "g1">>, <<"svg">>, <<"photo", "svg">> }

ServiceInvoke ==
    /\ inv.pc = "none"
    /\ \E fn \in {"character", "scene"}, urls \in ServiceArguments, ctxOk \in BOOLEAN :
         /\ fn = "character" => ctxOk
         /\ inv' = StartInvocation(fn, urls, ctxOk)
    /\ UNCHANGED <<appState, uploadedImage, generatedImages, isDownloading,
                   selectedStyle, selectedDetailedStyle, baseModelImage, scenePrompt,
                   generatedScene, isGeneratingScene, editingImage, editingContext,
                   task, dl, sheetLog>>
    /\ Frame

ServiceResponds == ApiRespondsWith(ApiOutcomes)

\* the caller takes the result or the error
ServiceSettled ==
    /\ Settled(inv)
    /\ inv' = NoInvocation
    /\ UNCHANGED <<appState, uploadedImage, generatedImages, isDownloading,
                   selectedStyle, selectedDetailedStyle, baseModelImage, scenePrompt,
                   generatedScene, isGeneratingScene, editingImage, editingContext,
                   task, dl, sheetLog>>
    /\ Frame

NextService ==
    \/ ServiceInvoke
    \/ ServiceResponds
    \/ BackoffElapsed
    \/ ServiceSettled

SpecService == Init /\ [][NextService]_vars

(***************************************************************************)
(* The editor, opened on the base character or on a scene, with the        *)
(* annotations of the user                                                 *)
(***************************************************************************)
AllDone == [i \in 1..Len(POSES) |-> Done(POSES[i], "g1")]

InitEditor ==
    /\ appState = "character-editor"
    /\ uploadedImage = "photo"
    /\ reader = <<>>
    /\ isDownloading = FALSE
    /\ selectedStyle = "2D"
    /\ selectedDetailedStyle = "manga-style"
    /\ baseModelImage = "g1"
    /\ isGeneratingScene = FALSE
    /\ editingImage = "g1"
    /\ editingContext \in {"character", "scene"}
    /\ IF editingContext = "character"
       THEN /\ generatedImages = <<Done(POSES[1], "g1")>>
            /\ scenePrompt = ""
            /\ generatedScene = NoScene
            /\ visited = {"idle", "style-selection", "generating-base", "approval",
                          "character-editor"}
       ELSE /\ generatedImages = AllDone
            /\ scenePrompt = "ride a dragon"
            /\ generatedScene = [url |-> "g1", prompt |-> "ride a dragon"]
            /\ visited = {"idle", "style-selection", "generating-base", "approval",
                          "generating-sheet", "results-shown", "scene-generator",
                          "generating-scene", "scene-results", "character-editor"}
    /\ task = NoTask
    /\ inv = NoInvocation
    /\ dl = NoDownload
    /\ editor = [NoEditor EXCEPT !.loading = TRUE]
    /\ edits = <<>>
    /\ sheet = <<>>
    /\ sheetCall = NoSheetCall
    /\ sheetLog = <<>>

NextEditor ==
    \/ EditorImageLoaded
    \/ endDrawing
    \/ handleGenerate
    \/ EditApiResponds
    \/ EditSettled
    \/ EditImageLoaded
    \/ handleCloseCharacterEditor
    \/ EditCharacter
    \/ EditScene

SpecEditor == InitEditor /\ [][NextEditor]_vars

(***************************************************************************)
(* The sheet compositor on every imageData the results view can hold       *)
(***************************************************************************)
SheetRecords(pose) ==
    {Done(pose, url) : url \in GenUrls} \cup {Failed(pose, <<UnavailableMessage>>)}

SheetInputs ==
    { <<r1, r2, r3, r4, r5, r6>> :
        r1 \in SheetRecords(POSES[1]), r2 \in SheetRecords(POSES[2]),
        r3 \in SheetRecords(POSES[3]), r4 \in SheetRecords(POSES[4]),
        r5 \in SheetRecords(POSES[5]), r6 \in SheetRecords(POSES[6]) }

InitSheet ==
    /\ appState = "results-shown"
    /\ uploadedImage = "photo"
    /\ reader = <<>>
    /\ generatedImages \in SheetInputs
    /\ isDownloading = FALSE
    /\ selectedStyle = "2D"
    /\ selectedDetailedStyle = "manga-style"
    /\ baseModelImage = "g1"
    /\ scenePrompt = ""
    /\ generatedScene = NoScene
    /\ isGeneratingScene = FALSE
    /\ editingImage = Null
    /\ editingContext = "character"
    /\ task = NoTask
    /\ inv = NoInvocation
    /\ dl = NoDownload
    /\ editor = NoEditor
    /\ edits = <<>>
    /\ sheet = <<>>
    /\ sheetCall = NoSheetCall
    /\ visited = {"results-shown"}
    /\ sheetLog = <<>>

NextSheet ==
    \/ DownloadFullSheet
    \/ SheetImagesSettled

SpecSheet == InitSheet /\ [][NextSheet]_vars

(***************************************************************************)
(* Properties                                                              *)
(***************************************************************************)
HasSignature(message) == \E token \in RetryableSignatures : Includes(message, token)

\* C1: one invocation of generateCharacterImage / generateSceneImage calls
\* ai.models.generateContent at most 3 times, and once attempt 3 has come
\* back the invocation has returned or thrown: nothing is pending any more.
C1_AtMostThreeCalls ==
    /\ inv.calls <= 3
    /\ inv.attempt <= 3
    /\ (inv.attempt = 3 /\ inv.pc # "calling") => Settled(inv)

C1_Witness ==
    /\ inv.pc = "thrown" /\ inv.calls = 3
    /\ inv.error = <<UnavailableMessage>>

\* C2: a failed attempt is followed by a wait and another attempt only if its
\* error message carries one of the five signatures; a failure without one
\* throws at once: no wait is added and no call is made.
C2_RetryOnlyOnSignature ==
    [][(inv.pc = "calling" /\ inv' # inv /\ inv'.pc # "returned") =>
          /\ inv'.pc = "waiting" => HasSignature(inv'.errorMessage)
          /\ ~HasSignature(inv'.errorMessage) =>
                /\ inv'.pc = "thrown"
                /\ inv'.calls = inv.calls
                /\ inv'.waited = inv.waited]_vars

C2_Witness ==
    /\ inv.pc = "thrown" /\ inv.attempt = 2 /\ inv.calls = 2
    /\ inv.errorMessage # <<>> /\ ~HasSignature(inv.errorMessage)

\* C3: the wait after a retryable failure on attempt 1 is 2000 ms and on
\* attempt 2 is 4000 ms, there is no wait after attempt 3, and one invocation
\* waits 6000 ms at most.
C3_BackoffDoubles ==
    /\ inv.pc = "waiting" =>
          /\ inv.attempt \in {1, 2}
          /\ inv.delay = IF inv.attempt = 1 THEN 2000 ELSE 4000
          /\ inv.waited = IF inv.attempt = 1 THEN 2000 ELSE 6000
    /\ inv.waited <= 6000

C3_Witness == inv.pc = "waiting" /\ inv.attempt = 2 /\ inv.waited = 6000

\* C4: an invocation returns only on a response with an inline image part, and
\* what it returns is that image; a response without one is never returned
\* from: it raises the "responded with text instead of an image" error.
C4_ReturnOnlyWithImage ==
    /\ inv.pc = "returned" => inv.last = "image" /\ inv.result \in GenUrls
    /\ (inv.last = "noimage" /\ inv.pc # "calling") =>
          /\ inv.pc \in {"waiting", "thrown"}
          /\ Head(inv.errorMessage) = "The AI model responded with text instead of an image:"

C4_Witness == inv.pc = "thrown" /\ inv.last = "noimage" /\ inv.calls = 1

\* the requests of a sheet run in the order of POSES: request, completion and
\* a 1000 ms delay for each of the five poses after the first
RECURSIVE ExpectedSheetLog(_)
ExpectedSheetLog(idx) ==
    IF idx > 6 THEN <<>>
    ELSE << [ev |-> "request", pose |-> POSES[idx], ms |-> 0],
            [ev |-> "completed", pose |-> POSES[idx], ms |-> 0],
            [ev |-> "delay", pose |-> POSES[idx], ms |-> 1000] >>
         \o ExpectedSheetLog(idx + 1)

IsPrefix(s, t) == Len(s) <= Len(t) /\ SubSeq(t, 1, Len(s)) = s

C6_OneRecordPerPose ==
    /\ \A i, j \in 1..Len(generatedImages) :
          generatedImages[i].pose = generatedImages[j].pose => i = j
    /\ \A i \in 1..Len(generatedImages) :
          /\ generatedImages[i].pose \in
                {"Front View", "Side View", "Back View", "Action Pose",
                 "Happy Expression", "Angry Expression"}
          /\ generatedImages[i].status \in {"pending", "done", "error"}
          /\ generatedImages[i].status = "done" => generatedImages[i].url # Null
          /\ generatedImages[i].status = "error" => generatedImages[i].error # <<>>
    /\ appState \in {"results-shown", "scene-generator", "generating-scene",
                     "scene-results"} => Len(generatedImages) = 6

C6_Witness ==
    /\ appState = "results-shown"
    /\ \E i, j \in 1..Len(generatedImages) :
          generatedImages[i].status = "error" /\ generatedImages[j].status = "done"

\* C7: appState follows the flow: style-selection is entered from idle by a
\* completed upload, generating-base from style-selection or approval,
\* approval from generating-base or from the editor, generating-sheet from
\* approval, results-shown only once generating-sheet has been visited, and
\* the three scene states only once results-shown has been visited.
C7_FlowOrder ==
    [][appState' # appState =>
          /\ appState' = "style-selection" =>
                appState = "idle" /\ generatedImages' = <<>> /\ baseModelImage' = Null
          /\ appState' = "generating-base" => appState \in {"style-selection", "approval"}
          /\ appState' = "approval" => appState \in {"generating-base", "character-editor"}
          /\ appState' = "generating-sheet" => appState = "approval"
          /\ appState' = "results-shown" => "generating-sheet" \in visited
          /\ appState' \in {"scene-generator", "generating-scene", "scene-results"} =>
                "results-shown" \in visited]_vars

C7_Witness ==
    /\ appState = "scene-results"
    /\ {"style-selection", "generating-base", "approval", "character-editor",
        "generating-sheet", "results-shown", "scene-generator",
        "generating-scene"} \subseteq visited

\* C8: when the request of a pose fails in handleApproveAndGenerateSheet the
\* record of that pose becomes {status: 'error', error: message}, every other
\* record stays as it was, and after the delay the next pose is requested.
C8_PoseFailureIsLocal ==
    [][/\ (task.kind = "sheet" /\ task.pc = "gen" /\ inv.pc = "thrown"
           /\ task'.pc = "delay") =>
             /\ Len(generatedImages') = Len(generatedImages)
             /\ \A i \in 1..Len(generatedImages) :
                   IF generatedImages[i].pose = POSES[task.idx]
                   THEN generatedImages'[i] =
                          [pose |-> POSES[task.idx], status |-> "error",
                           url |-> Null, error |-> inv.error]
                   ELSE generatedImages'[i] = generatedImages[i]
             /\ \E i \in 1..Len(generatedImages) : generatedImages[i].pose = POSES[task.idx]
       /\ (task.kind = "sheet" /\ task.pc = "delay" /\ task.idx < 6 /\ task' # task
           /\ Get(generatedImages, POSES[task.idx]).status = "error") =>
             /\ task'.kind = "sheet" /\ task'.pc = "gen" /\ task'.idx = task.idx + 1
             /\ sheetLog'[Len(sheetLog')] =
                   [ev |-> "request", pose |-> POSES[task.idx + 1], ms |-> 0]
             /\ inv'.pc # "none"]_vars

C8_Witness ==
    /\ appState = "results-shown"
    /\ Get(generatedImages, "Back View").status = "error"
    /\ Get(generatedImages, "Side View").status = "done"
    /\ Get(generatedImages, "Action Pose").status = "done"

\* C9: while appState is generating-base, generating-sheet or generating-scene
\* it changes only when the generation in flight is over: the base or scene
\* request has returned or thrown, or the last of the five poses has
\* completed; nothing else (no user action, no timeout) moves it.
C9_NoCancellation ==
    [][(appState \in {"generating-base", "generating-sheet", "generating-scene"}
        /\ appState' # appState) =>
          /\ appState = "generating-base" =>
                task.kind = "base" /\ Settled(inv) /\ appState' = "approval"
          /\ appState = "generating-scene" =>
                /\ task.kind = "scene" /\ Settled(inv)
                /\ appState' = IF inv.pc = "returned" THEN "scene-results"
                               ELSE "scene-generator"
          /\ appState = "generating-sheet" =>
                /\ task.kind = "sheet" /\ task.pc = "delay" /\ task.idx = 6
                /\ Len(SelectSeq(sheetLog, LAMBDA e : e.ev = "completed")) = 5
                /\ appState' = "results-shown"]_vars

C9_Witness ==
    /\ appState = "generating-sheet" /\ inv.pc = "waiting" /\ inv.attempt = 2
    /\ task.idx = 4

\* C10: createCharacterSheet draws one card for each image that is done with
\* a url, in the order of the entries, and leaves the others out; the card of
\* index i is in row floor(i/3) and column i mod 3 of a grid of 3 columns and
\* 2 rows, no two cards share a cell, and every card lies inside the canvas of
\* 3508 x 2480 and below the header of 300.
C10_SheetGrid ==
    sheet # <<>> =>
      /\ Len(sheet) = Cardinality({i \in 1..Len(generatedImages) :
                          generatedImages[i].status = "done"
                          /\ generatedImages[i].url # Null})
      /\ Len(sheet) <= 6
      /\ \A k \in 1..Len(sheet) :
            /\ sheet[k].index = k - 1
            /\ sheet[k].row = (k - 1) \div 3 /\ sheet[k].row \in {0, 1}
            /\ sheet[k].col = (k - 1) % 3
            /\ \E i \in 1..Len(generatedImages) :
                  /\ generatedImages[i].pose = sheet[k].pose
                  /\ generatedImages[i].status = "done"
                  /\ generatedImages[i].url = sheet[k].url
            /\ sheet[k].x >= 0 /\ sheet[k].x + cardWidth <= 3508 * 100
            /\ sheet[k].y >= 300 * 100 /\ sheet[k].y + cardHeight <= 2480 * 100
      /\ \A k, l \in 1..Len(sheet) :
            /\ (sheet[k].row = sheet[l].row /\ sheet[k].col = sheet[l].col) => k = l
            /\ k < l =>
                 \E i, j \in 1..Len(generatedImages) :
                    /\ i < j
                    /\ generatedImages[i].pose = sheet[k].pose
                    /\ generatedImages[j].pose = sheet[l].pose

C10_Witness ==
    /\ Len(sheet) = 5
    /\ generatedImages[2].status = "error"
    /\ sheet[5].pose = "Angry Expression" /\ sheet[5].row = 1 /\ sheet[5].col = 1

\* C11: a call of createCharacterSheet calls onComplete exactly once, with the
\* data URL of the sheet, when every completed image loads, and its promise is
\* then fulfilled; when the canvas context is missing or an image fails to load
\* the promise is rejected and onComplete is not called; it is not called
\* before the images have settled.
NumCompleted == Len(CompletedEntries(generatedImages))

C11_OnCompleteOnce ==
    /\ sheetCall.promise \in {"none", "pending", "fulfilled", "rejected"}
    /\ sheetCall.promise \in {"none", "pending"} => sheetCall.onComplete = <<>>
    /\ sheetCall.promise = "rejected" => sheetCall.onComplete = <<>>
    /\ sheetCall.promise = "fulfilled" =>
          /\ sheetCall.ctx /\ sheetCall.loaded = 1..NumCompleted
          /\ Len(sheetCall.onComplete) = 1
          /\ sheetCall.onComplete[1][1] = "data:image/jpeg"
          /\ Len(sheetCall.onComplete[1][2]) = NumCompleted
    /\ (sheetCall.ctx /\ sheetCall.promise \in {"fulfilled", "rejected"}) =>
          /\ sheetCall.loaded = 1..NumCompleted => sheetCall.promise = "fulfilled"
          /\ sheetCall.loaded # 1..NumCompleted => sheetCall.promise = "rejected"
    /\ ~sheetCall.ctx => sheetCall.promise \in {"none", "rejected"}

C11_Witness ==
    /\ NumCompleted = 4
    /\ sheetCall.promise = "rejected" /\ sheetCall.ctx /\ sheetCall.loaded = {1, 2, 4}
    /\ sheet # <<>>

\* C12: in the state generateBaseModel leaves when its request has failed, the
\* first time included, the approval view is shown, so that Try Again, which
\* runs generateBaseModel again, can be used.
C12_RetryShownAfterFailure ==
    [][(task.kind = "base" /\ inv.pc = "thrown" /\ task'.kind = "none")
          => (appState' = "approval" /\ ApprovalShown')]_vars

\* C13 as stated: whatever its text, a response without an inline image part
\* ends the invocation: it throws "failed to generate an image. Details: ..."
\* and calls the API no more.
C13_TextIsTerminal ==
    [][(inv.pc = "calling" /\ inv' # inv /\ inv'.last = "noimage") =>
          /\ inv'.pc = "thrown"
          /\ inv'.calls = inv.calls
          /\ Head(inv'.error) =
                IF inv.fn = "scene"
                THEN "The AI model failed to generate a scene image. Details:"
                ELSE "The AI model failed to generate an image. Details:"]_vars

\* C13, amended: a response without an inline image part raises the error
\* "responded with text instead of an image: <text>" inside the try block.  If
\* the text carries none of the five signatures the invocation throws at once
\* "failed to generate an image. Details: ..." and calls the API no more; if
\* it carries one, the response is handled as a retryable failure: a wait and
\* another attempt after attempt 1 or 2, "temporarily unavailable" after 3.
C13_TextTerminalUnlessSignature ==
    [][(inv.pc = "calling" /\ inv' # inv /\ inv'.last = "noimage") =>
          /\ Head(inv'.errorMessage) = "The AI model responded with text instead of an image:"
          /\ ~HasSignature(Tail(inv'.errorMessage)) =>
                /\ inv'.pc = "thrown"
                /\ inv'.calls = inv.calls /\ inv'.waited = inv.waited
                /\ Head(inv'.error) =
                      IF inv.fn = "scene"
                      THEN "The AI model failed to generate a scene image. Details:"
                      ELSE "The AI model failed to generate an image. Details:"
                /\ Tail(inv'.error) = inv'.errorMessage
          /\ HasSignature(Tail(inv'.errorMessage)) =>
                IF inv.attempt < 3
                THEN inv'.pc = "waiting" /\ inv'.waited > inv.waited
                ELSE /\ inv'.pc = "thrown"
                     /\ inv'.error = <<"The AI service is temporarily unavailable. Please try again in a few moments.">>]_vars

C13_Witness ==
    /\ inv.pc = "calling" /\ inv.attempt = 2 /\ inv.last = "noimage"
    /\ HasSignature(Tail(inv.errorMessage))

\* C14: the error an invocation throws out of its catch block is fixed by the
\* failure of its last attempt: "The AI service is temporarily unavailable..."
\* exactly when the third attempt failed with a retryable error; "failed to
\* generate an image. Details: <message>" when the failing attempt threw an
\* Error that is not retryable; "An unknown error occurred..." when it threw
\* a value that is not an Error and not retryable.
C14_ThrownErrorByLastFailure ==
    inv.pc = "thrown" =>
      /\ (inv.error = <<"The AI service is temporarily unavailable. Please try again in a few moments.">>)
            <=> (inv.last # "none" /\ inv.attempt = 3 /\ inv.calls = 3
                 /\ HasSignature(inv.errorMessage))
      /\ (inv.last # "none" /\ ~HasSignature(inv.errorMessage) /\ inv.isError) =>
            inv.error =
               <<IF inv.fn = "scene"
                 THEN "The AI model failed to generate a scene image. Details:"
                 ELSE "The AI model failed to generate an image. Details:">>
               \o inv.errorMessage
      /\ (inv.last # "none" /\ ~HasSignature(inv.errorMessage) /\ ~inv.isError) =>
            inv.error =
               <<IF inv.fn = "scene"
                 THEN "An unknown error occurred while generating the scene image."
                 ELSE "An unknown error occurred while generating the image.">>

C14_Witness ==
    /\ inv.pc = "thrown" /\ inv.attempt = 2 /\ inv.last = "reject" /\ ~inv.isError
    /\ inv.error = <<"An unknown error occurred while generating the image.">>

\* C15: the throw after the retry loop ("failed to generate an image after all
\* retries") is never reached: there is no wait after attempt 3, attempt never
\* passes 3, and no invocation throws that error.
C15_AfterLoopUnreachable ==
    /\ inv.attempt \in 0..3
    /\ inv.pc = "waiting" => inv.attempt < 3
    /\ inv.pc = "thrown" =>
          inv.error \notin {<<"The AI model failed to generate an image after all retries.">>,
                            <<"The AI model failed to generate a scene image after all retries.">>}

C15_Witness ==
    /\ inv.pc = "thrown" /\ inv.attempt = 3 /\ inv.fn = "scene" /\ inv.last = "noimage"
    /\ inv.waited = 6000

\* C16: handleImageUpload hands a file to the FileReader, and so accepts it,
\* only if the file is smaller than 4 MB = 4 * 1024 * 1024 bytes; the handling
\* of a rejected file changes neither uploadedImage, appState, generatedImages,
\* baseModelImage nor the style selections.
C16_AcceptsOnlySmallerThan4MB ==
    [][/\ (reader = <<>> /\ reader' # <<>>) => Head(reader').size < 4 * 1024 * 1024
       /\ (appState = "idle" /\ reader = <<>> /\ reader' = <<>>) =>
             UNCHANGED <<uploadedImage, appState, generatedImages, baseModelImage,
                         selectedStyle, selectedDetailedStyle>>]_vars

\* C17: a sheet is created and downloaded only when all six poses are done
\* with a url; with fewer than six done no creation of a sheet is begun.
C17_SheetOnlyWhenAllDone ==
    (sheetCall.promise \in {"pending", "fulfilled"} \/ sheetCall.onComplete # <<>>
        \/ sheet # <<>>)
      => NumCompleted = Len(POSES)

\* C18: the editor is opened from 'approval' with context 'character' or from
\* 'scene-results' with context 'scene', the context stays while it is open,
\* and closing it sets editingImage to null and editingContext to 'character'
\* and returns appState to 'approval' in the first case and to 'scene-results'
\* in the second.
C18_CloseReturnsToOrigin ==
    [][/\ (appState # "character-editor" /\ appState' = "character-editor") =>
             \/ appState = "approval" /\ editingContext' = "character"
             \/ appState = "scene-results" /\ editingContext' = "scene"
       /\ (appState = "character-editor" /\ appState' = "character-editor") =>
             editingContext' = editingContext /\ editingImage' = editingImage
       /\ (appState = "character-editor" /\ appState' # "character-editor") =>
             /\ editingImage' = Null /\ editingContext' = "character"
             /\ appState' = IF editingContext = "scene" THEN "scene-results"
                            ELSE "approval"]_vars

C18_Witness ==
    /\ appState = "scene-results" /\ editingImage = Null /\ editingContext = "character"
    /\ generatedScene.url = "g2" /\ edits = <<>>

\* the effect of handleCharacterEdited(url) in the 'character' context
EditedAsCharacter(url) ==
    /\ baseModelImage' = url
    /\ \E k \in 1..Len(generatedImages') :
          generatedImages'[k] =
             [pose |-> "Front View", status |-> "done", url |-> url, error |-> <<>>]
    /\ \A k \in 1..Len(generatedImages) :
          generatedImages[k].pose # "Front View" =>
             \E l \in 1..Len(generatedImages') : generatedImages'[l] = generatedImages[k]
    /\ Len(generatedImages') =
          Len(generatedImages) + (IF Has(generatedImages, "Front View") THEN 0 ELSE 1)
    /\ generatedScene' = generatedScene

\* the effect of handleCharacterEdited(url) in the 'scene' context
EditedAsScene(url) ==
    /\ generatedScene' = IF generatedScene.url = Null THEN generatedScene
                         ELSE [url |-> url, prompt |-> generatedScene.prompt]
    /\ baseModelImage' = baseModelImage
    /\ generatedImages' = generatedImages

\* C19: the step in which handleGenerate ends and may call handleCharacterEdited
\* changes neither appState, editingImage nor editingContext, so the editor of
\* the call stays open; what the handler changes is, in the 'character'
\* context, baseModelImage and the record of 'Front View', both set to the
\* edited url with status 'done', and in the 'scene' context the url of
\* generatedScene alone; everything else of the three is left as it was.
C19_EditedKeepsEditorOpen ==
    [][\A i \in 1..Len(edits) :
          (edits[i].pc = "loading" /\ edits' = Remove(edits, i)) =>
             /\ appState' = appState /\ editingImage' = editingImage
             /\ editingContext' = editingContext
             /\ edits[i].mounted => appState = "character-editor"
             /\ \/ /\ UNCHANGED <<baseModelImage, generatedImages, generatedScene>>
                   /\ edits[i].mounted => editor'.calls # <<<<"onImageGenerated", edits[i].v.result>>>>
                \/ edits[i].context = "character" /\ EditedAsCharacter(edits[i].v.result)
                \/ edits[i].context = "scene" /\ EditedAsScene(edits[i].v.result)]_vars

C19_Witness ==
    /\ appState = "character-editor" /\ editingImage = "g1" /\ editingContext = "scene"
    /\ editor.calls = <<<<"onImageGenerated", "g2">>>>
    /\ generatedScene = [url |-> "g2", prompt |-> "ride a dragon"]
    /\ baseModelImage = "g1"

\* C20: a call of handleGenerate makes one call in all: onImageGenerated with
\* the url of the result when generation has succeeded and the result has
\* loaded, and then the displayed image is the result and the annotations are
\* cleared; onError with the message when it has failed, and then neither
\* onImageGenerated is called nor the annotations or the displayed image
\* change.  While the call is awaiting it has called neither.
C20_GenerateCallsBack ==
    [][/\ editor'.isGenerating => editor'.calls = <<>>
       /\ (editor.isGenerating /\ ~editor'.isGenerating
           /\ appState = "character-editor" /\ appState' = "character-editor") =>
             \E i \in 1..Len(edits) :
                /\ edits[i].mounted /\ edits' = Remove(edits, i)
                /\ Len(editor'.calls) = 1
                /\ editor'.calls[1][1] = "onImageGenerated" =>
                      /\ edits[i].v.pc = "returned" /\ edits[i].pc = "loading"
                      /\ editor'.calls[1][2] = edits[i].v.result
                      /\ editor'.image = edits[i].v.result
                      /\ editor'.annotations = <<>>
                /\ edits[i].v.pc = "thrown" =>
                      editor'.calls = <<<<"onError", edits[i].v.error>>>>
                /\ editor'.calls[1][1] # "onImageGenerated" =>
                      /\ editor'.calls[1][1] = "onError" /\ editor'.calls[1][2] # <<>>
                      /\ editor'.image = editor.image
                      /\ editor'.annotations = editor.annotations
                      /\ UNCHANGED <<baseModelImage, generatedImages, generatedScene>>
       /\ (~editor.isGenerating /\ ~editor'.isGenerating /\ editor'.calls # editor.calls
           /\ editor'.calls # <<>>) =>
             /\ editor'.calls = <<<<"onError", <<"Failed to get canvas context">>>>>>
             /\ editor'.image = editor.image
             /\ editor'.annotations = editor.annotations
             /\ UNCHANGED <<baseModelImage, generatedImages, generatedScene>>]_vars

C20_Witness ==
    /\ appState = "character-editor" /\ ~editor.isGenerating
    /\ editor.image = "g2" /\ editor.annotations # <<>>
    /\ Len(editor.calls) = 1 /\ editor.calls[1][1] = "onError"
    /\ baseModelImage = "g2"

====
